---- MODULE Spec2Model ----
(***************************************************************************)
(* A model of maybe-async-cfg's configuration model (src/params.rs) and of *)
(* its macro driver (src/macros.rs).                                       *)
(*                                                                         *)
(* Rust values are modelled as follows.                                    *)
(*   Option<T>        a sequence of length 0 (None) or 1 (Some)            *)
(*   String, &str     a TLA+ string                                        *)
(*   Vec<T>, Punctuated<T, Comma>   a sequence                             *)
(*   HashMap<String, V>   a function whose domain is the set of keys       *)
(*   syn::Ident       a record [raw, sym]: `r#sym` when raw, else `sym`    *)
(*   syn::NestedMeta  a record [t, path, lit, nested], see MPath..NLit     *)
(*   syn::Result<T>   a record [ok, v]                                     *)
(***************************************************************************)
EXTENDS Integers, Sequences, FiniteSets, TLC

VARIABLES
    pc,        \* where the invocation stands: "args", "built", "done", "error"
    builder,   \* MacroParametersBuilder.params while from_args loops
    nargs,     \* number of arguments from_args has consumed
    params,    \* the MacroParameters returned by build
    input,     \* the token stream the attribute is attached to
    output,    \* the token stream the invocation returns
    call,      \* the last call of IdentRecord::ident_add_suffix
    last,      \* the argument from_args took last
    regs,      \* convert's `params`: on entry, then after each item dispatched
    round,     \* a configuration serialised by to_nestedmeta and parsed again
    pending,   \* the argument lists of the #[maybe(..)] attributes not yet expanded
    passes,    \* the number of invocations of maybe run so far
    output2    \* what the last invocation of an emitted #[maybe(..)] returned

vars == <<pc, builder, nargs, params, input, output, call, last, regs, round,
          pending, passes, output2>>

\* The state of the expansions that follow the first one.
chain == <<pending, passes, output2>>

----------------------------------------------------------------------------
(* Option<T> *)

None == <<>>

Some(x) == <<x>>

IsSome(o) == Len(o) = 1

IsNone(o) == Len(o) = 0

Unwrap(o) == o[1]

(* HashMap<String, V> *)

EmptyMap == <<>>

MapInsert(m, k, v) == [x \in (DOMAIN m) \cup {k} |-> IF x = k THEN v ELSE m[x]]

\* HashMap::extend: every pair of `other` is inserted, replacing the value of
\* a key that is already present.
MapExtend(m, other) ==
    [x \in (DOMAIN m) \cup (DOMAIN other) |-> IF x \in DOMAIN other THEN other[x] ELSE m[x]]

----------------------------------------------------------------------------
(* ConvertMode *)

MODE_INTO_ASYNC == "__into_async"

MODE_INTO_SYNC == "__into_sync"

IntoSync == "IntoSync"

IntoAsync == "IntoAsync"

ConvertMode == {IntoSync, IntoAsync}

ConvertMode_from_str(s) ==
    CASE s = "sync" -> Some(IntoSync)
      [] s = "async" -> Some(IntoAsync)
      [] OTHER -> None

ConvertMode_to_str(m) == IF m = IntoSync THEN "sync" ELSE "async"

----------------------------------------------------------------------------
(* IdentRecord *)

IdentRecord_new ==
    [fn_mode |-> FALSE, use_mode |-> FALSE, keep |-> FALSE,
     ident_sync |-> None, ident_async |-> None, idents |-> None]

IdentRecord_with_fn_mode(fn_mode) ==
    [fn_mode |-> fn_mode, use_mode |-> FALSE, keep |-> FALSE,
     ident_sync |-> None, ident_async |-> None, idents |-> None]

PlainIdent(s) == [raw |-> FALSE, sym |-> s]

\* The closure new_ident: parse_str::<Ident>(&format!("r#{}", name)), a raw
\* identifier spelled r#name.
new_ident(name) == [raw |-> TRUE, sym |-> name]

\* Display of an identifier, as format!("{}", ident) prints it.
IdentToString(ident) == IF ident.raw THEN "r#" \o ident.sym ELSE ident.sym

Suffix(fn_mode, convert_mode) ==
    CASE ~fn_mode /\ convert_mode = IntoAsync -> "Async"
      [] ~fn_mode /\ convert_mode = IntoSync -> "Sync"
      [] fn_mode /\ convert_mode = IntoAsync -> "_async"
      [] fn_mode /\ convert_mode = IntoSync -> "_sync"

ident_add_suffix_mode_first(self, ident, convert_mode, version_name) ==
    IF self.keep THEN ident
    ELSE IF convert_mode = IntoSync /\ IsSome(self.ident_sync)
    THEN new_ident(Unwrap(self.ident_sync))
    ELSE IF convert_mode = IntoAsync /\ IsSome(self.ident_async)
    THEN new_ident(Unwrap(self.ident_async))
    ELSE IF IsSome(version_name) /\ IsSome(self.idents)
            /\ Unwrap(version_name) \in DOMAIN Unwrap(self.idents)
    THEN new_ident(Unwrap(self.idents)[Unwrap(version_name)])
    ELSE PlainIdent(IdentToString(ident) \o Suffix(self.fn_mode, convert_mode))

ident_add_suffix_swapped(self, ident, convert_mode, version_name) ==
    IF self.keep THEN ident
    ELSE IF IsSome(version_name) /\ IsSome(self.idents)
            /\ Unwrap(version_name) \in DOMAIN Unwrap(self.idents)
    THEN new_ident(Unwrap(self.idents)[Unwrap(version_name)])
    ELSE IF convert_mode = IntoSync /\ IsSome(self.ident_sync)
    THEN new_ident(Unwrap(self.ident_sync))
    ELSE IF convert_mode = IntoAsync /\ IsSome(self.ident_async)
    THEN new_ident(Unwrap(self.ident_async))
    ELSE PlainIdent(IdentToString(ident) \o Suffix(~self.fn_mode, convert_mode))

ident_add_suffix(self, ident, convert_mode, version_name) ==
    IF self.keep THEN ident
    ELSE IF IsSome(version_name) /\ IsSome(self.idents)
            /\ Unwrap(version_name) \in DOMAIN Unwrap(self.idents)
    THEN new_ident(Unwrap(self.idents)[Unwrap(version_name)])
    ELSE IF convert_mode = IntoSync /\ IsSome(self.ident_sync)
    THEN new_ident(Unwrap(self.ident_sync))
    ELSE IF convert_mode = IntoAsync /\ IsSome(self.ident_async)
    THEN new_ident(Unwrap(self.ident_async))
    ELSE PlainIdent(IdentToString(ident) \o Suffix(self.fn_mode, convert_mode))

----------------------------------------------------------------------------
(* syn::Lit, syn::Meta and syn::NestedMeta *)

LitStr(s) == [k |-> "str", v |-> s]

LitInt(s) == [k |-> "int", v |-> s]

NoLit == [k |-> "none", v |-> ""]

\* Meta::Path
MPath(path) == [t |-> "path", path |-> path, lit |-> NoLit, nested |-> <<>>]

\* Meta::NameValue
MNameValue(path, lit) == [t |-> "nv", path |-> path, lit |-> lit, nested |-> <<>>]

\* Meta::List
MList(path, nested) == [t |-> "list", path |-> path, lit |-> NoLit, nested |-> nested]

\* NestedMeta::Lit
NLit(lit) == [t |-> "lit", path |-> <<>>, lit |-> lit, nested |-> <<>>]

\* utils::make_path: the single-segment path of a name
make_path(name) == <<name>>

make_nestedmeta_namevalue(name, value) == MNameValue(make_path(name), LitStr(value))

make_nestedmeta_list(name, nested) == MList(make_path(name), nested)

\* syn::Path::get_ident: the identifier of a single-segment path
get_ident(path) == IF Len(path) = 1 THEN Some(path[1]) ELSE None

(* syn::Result *)

Ok(v) == [ok |-> TRUE, v |-> v]

Err(v) == [ok |-> FALSE, v |-> v]

----------------------------------------------------------------------------
(* MacroParametersBuilder *)

MacroParametersBuilder_new ==
    [mode |-> None, disable |-> FALSE, key |-> None, self_name |-> None,
     keep_self |-> FALSE, prefix |-> None, idents |-> EmptyMap, send |-> None,
     cfg |-> None, outer_attrs |-> <<>>, inner_attrs |-> <<>>, drop_attrs |-> <<>>,
     replace_features |-> EmptyMap, versions |-> <<>>]

mode_into_sync(p) == [p EXCEPT !.mode = Some(IntoSync)]

mode_into_async(p) == [p EXCEPT !.mode = Some(IntoAsync)]

key(p, k) == [p EXCEPT !.key = Some(k)]

self_name(p, s) == [p EXCEPT !.self_name = Some(s)]

disable(p) == [p EXCEPT !.disable = TRUE]

keep_self(p) == [p EXCEPT !.keep_self = TRUE]

prefix(p, s) == [p EXCEPT !.prefix = Some(s)]

send(p, s) ==
    CASE s \in {"", "Send", "true"} -> Ok([p EXCEPT !.send = Some(TRUE)])
      [] s \in {"?Send", "false"} -> Ok([p EXCEPT !.send = Some(FALSE)])
      [] OTHER -> Err(p)

cfg_meta(p, meta) == [p EXCEPT !.cfg = Some(meta)]

feature(p, meta) == cfg_meta(p, meta)

cfg_list_first(p, list) ==
    IF Len(list.nested) >= 1 /\ list.nested[1].t # "lit"
    THEN Ok(cfg_meta(p, list.nested[1]))
    ELSE Err(p)

cfg_list(p, list) ==
    IF Len(list.nested) = 1 /\ list.nested[1].t # "lit"
    THEN Ok(cfg_meta(p, list.nested[1]))
    ELSE Err(p)

outer_attrs(p, list) == [p EXCEPT !.outer_attrs = p.outer_attrs \o list]

inner_attrs(p, list) == [p EXCEPT !.inner_attrs = p.inner_attrs \o list]

inner_attr_str(p, lit) == [p EXCEPT !.inner_attrs = Append(p.inner_attrs, NLit(lit))]

inner_attr(p, meta) == [p EXCEPT !.inner_attrs = Append(p.inner_attrs, meta)]

\* One entry of the list inside an idents(name(...)) rule: the loop body of
\* lines 734-801. `ident` is the name the rule is for.
idents_inner(ir, ident, inm) ==
    CASE inm.t = "path" ->
            IF IsNone(get_ident(inm.path)) THEN Err(ir)
            ELSE LET iname == Unwrap(get_ident(inm.path)) IN
                 CASE iname = "fn" -> Ok([ir EXCEPT !.fn_mode = TRUE])
                   [] iname = "use" -> Ok([ir EXCEPT !.use_mode = TRUE])
                   [] iname = "keep" -> Ok([ir EXCEPT !.keep = TRUE])
                   [] iname = "sync" -> Ok([ir EXCEPT !.ident_sync = Some(ident)])
                   [] iname = "async" -> Ok([ir EXCEPT !.ident_async = Some(ident)])
                   [] OTHER -> Err(ir)
      [] inm.t = "nv" /\ inm.lit.k = "str" ->
            IF IsNone(get_ident(inm.path)) THEN Err(ir)
            ELSE LET iname == Unwrap(get_ident(inm.path))
                     ivalue == inm.lit.v
                 IN CASE iname = "sync" -> Ok([ir EXCEPT !.ident_sync = Some(ivalue)])
                      [] iname = "async" -> Ok([ir EXCEPT !.ident_async = Some(ivalue)])
                      [] OTHER ->
                           Ok([ir EXCEPT !.idents =
                                 Some(MapInsert(IF IsSome(ir.idents) THEN Unwrap(ir.idents)
                                                ELSE EmptyMap,
                                                iname, ivalue))])
      [] OTHER -> Err(ir)

RECURSIVE idents_record(_, _, _)
\* The inner loop of idents over the nested list of one rule.
idents_record(ir, ident, nested) ==
    IF nested = <<>> THEN Ok(ir)
    ELSE LET r == idents_inner(ir, ident, Head(nested)) IN
         IF r.ok THEN idents_record(r.v, ident, Tail(nested)) ELSE r

RECURSIVE idents(_, _)
\* MacroParametersBuilder::idents on the rename table `table`.
idents(table, list) ==
    IF list = <<>> THEN Ok(table)
    ELSE LET nm == Head(list) IN
         CASE nm.t = "path" ->
                 IF IsNone(get_ident(nm.path)) THEN Err(table)
                 ELSE idents(MapInsert(table, Unwrap(get_ident(nm.path)), IdentRecord_new),
                             Tail(list))
           [] nm.t = "list" ->
                 IF IsNone(get_ident(nm.path)) THEN Err(table)
                 ELSE LET ident == Unwrap(get_ident(nm.path))
                          r == idents_record(IdentRecord_new, ident, nm.nested)
                      IN IF r.ok
                         THEN idents(MapInsert(table, ident, r.v), Tail(list))
                         ELSE Err(table)
           [] OTHER -> Err(table)

drop_attrs_first_only(p, meta) ==
    IF meta = <<>> THEN Ok(p)
    ELSE IF Head(meta).t = "path" /\ IsSome(get_ident(Head(meta).path))
         THEN Ok([p EXCEPT !.drop_attrs = Append(p.drop_attrs, Unwrap(get_ident(Head(meta).path)))])
         ELSE Err(p)

RECURSIVE drop_attrs(_, _)
drop_attrs(p, meta) ==
    IF meta = <<>> THEN Ok(p)
    ELSE LET nm == Head(meta) IN
         IF nm.t = "path" /\ IsSome(get_ident(nm.path))
         THEN drop_attrs([p EXCEPT !.drop_attrs = Append(p.drop_attrs, Unwrap(get_ident(nm.path)))],
                         Tail(meta))
         ELSE Err(p)

replace_feature(p, meta) ==
    IF Len(meta) = 2
    THEN IF meta[1].t = "lit" /\ meta[1].lit.k = "str"
            /\ meta[2].t = "lit" /\ meta[2].lit.k = "str"
         THEN Ok([p EXCEPT !.replace_features =
                    MapInsert(p.replace_features, meta[1].lit.v, meta[2].lit.v)])
         ELSE Err(p)
    ELSE Err(p)

----------------------------------------------------------------------------
(* MacroParameters::apply_parent and MacroParametersBuilder::build *)

apply_parent_drops_after(child, parent) ==
    [child EXCEPT
        !.disable = IF parent.disable THEN TRUE ELSE child.disable,
        !.keep_self = IF parent.keep_self THEN TRUE ELSE child.keep_self,
        !.idents = MapExtend(child.idents, parent.idents),
        !.drop_attrs = child.drop_attrs \o parent.drop_attrs,
        !.replace_features = MapExtend(child.replace_features, parent.replace_features)]

apply_parent_keep_self_only(child, parent) ==
    [child EXCEPT
        !.keep_self = IF parent.keep_self THEN TRUE ELSE child.keep_self,
        !.idents = MapExtend(child.idents, parent.idents),
        !.drop_attrs = parent.drop_attrs \o child.drop_attrs,
        !.replace_features = MapExtend(child.replace_features, parent.replace_features)]

apply_parent_inherits_settings(child, parent) ==
    [child EXCEPT
        !.disable = IF parent.disable THEN TRUE ELSE child.disable,
        !.keep_self = IF parent.keep_self THEN TRUE ELSE child.keep_self,
        !.idents = IF DOMAIN parent.idents # {}
                   THEN MapExtend(child.idents, parent.idents)
                   ELSE child.idents,
        !.drop_attrs = IF parent.drop_attrs # <<>>
                       THEN parent.drop_attrs \o child.drop_attrs
                       ELSE child.drop_attrs,
        !.replace_features = IF DOMAIN parent.replace_features # {}
                             THEN MapExtend(child.replace_features, parent.replace_features)
                             ELSE child.replace_features,
        !.send = IF IsNone(child.send) THEN parent.send ELSE child.send,
        !.prefix = IF IsNone(child.prefix) THEN parent.prefix ELSE child.prefix,
        !.self_name = IF IsNone(child.self_name) THEN parent.self_name ELSE child.self_name]

apply_parent(child, parent) ==
    [child EXCEPT
        !.disable = IF parent.disable THEN TRUE ELSE child.disable,
        !.keep_self = IF parent.keep_self THEN TRUE ELSE child.keep_self,
        !.idents = IF DOMAIN parent.idents # {}
                   THEN MapExtend(child.idents, parent.idents)
                   ELSE child.idents,
        !.drop_attrs = IF parent.drop_attrs # <<>>
                       THEN parent.drop_attrs \o child.drop_attrs
                       ELSE child.drop_attrs,
        !.replace_features = IF DOMAIN parent.replace_features # {}
                             THEN MapExtend(child.replace_features, parent.replace_features)
                             ELSE child.replace_features]

\* A MacroParameterVersion
Version(kind, p) == [kind |-> kind, params |-> p]

build_version_parent_key(version, parent) ==
    LET merged == apply_parent(version.params, [parent EXCEPT !.versions = <<>>]) IN
    Version(version.kind,
            IF IsNone(merged.key)
            THEN [merged EXCEPT !.key = IF IsSome(parent.key) THEN parent.key
                                        ELSE Some(ConvertMode_to_str(version.kind))]
            ELSE merged)

\* One pass of the loop of build over a version.
build_version(version, parent) ==
    LET merged == apply_parent(version.params, [parent EXCEPT !.versions = <<>>]) IN
    Version(version.kind,
            IF IsNone(merged.key)
            THEN [merged EXCEPT !.key = Some(ConvertMode_to_str(version.kind))]
            ELSE merged)

build(p) ==
    [p EXCEPT !.versions = [i \in 1..Len(p.versions) |-> build_version(p.versions[i], p)]]

----------------------------------------------------------------------------
(* MacroParameters::from_args *)

RECURSIVE from_args(_)

version(p, kind, list) ==
    LET inner == from_args(list) IN
    IF inner.ok
    THEN Ok([p EXCEPT !.versions = Append(p.versions, Version(kind, inner.v))])
    ELSE Err(p)

version_or_inner_attr_strict(p, name, list, meta) ==
    IF IsSome(ConvertMode_from_str(name))
    THEN version(p, Unwrap(ConvertMode_from_str(name)), list)
    ELSE Err(p)

version_or_inner_attr(p, name, list, meta) ==
    IF IsSome(ConvertMode_from_str(name))
    THEN version(p, Unwrap(ConvertMode_from_str(name)), list)
    ELSE Ok([p EXCEPT !.inner_attrs = Append(p.inner_attrs, meta)])

\* The body of the loop of from_args: one argument applied to the builder.
from_args_arg(p, arg) ==
    CASE arg.t = "nv" ->
            IF IsNone(get_ident(arg.path)) THEN Err(p)
            ELSE LET name == Unwrap(get_ident(arg.path)) IN
                 CASE name \in {"key", "self", "prefix", "send", "feature"}
                        /\ arg.lit.k # "str" -> Err(p)
                   [] name = "key" -> Ok(key(p, arg.lit.v))
                   [] name = "self" -> Ok(self_name(p, arg.lit.v))
                   [] name = "prefix" -> Ok(prefix(p, arg.lit.v))
                   [] name = "send" -> send(p, arg.lit.v)
                   [] name = "feature" -> Ok(feature(p, arg))
                   [] OTHER -> Err(p)
      [] arg.t = "list" ->
            IF IsNone(get_ident(arg.path)) THEN Err(p)
            ELSE LET name == Unwrap(get_ident(arg.path)) IN
                 CASE name = "cfg" -> cfg_list(p, arg)
                   [] name = "idents" ->
                        LET r == idents(p.idents, arg.nested) IN
                        IF r.ok THEN Ok([p EXCEPT !.idents = r.v]) ELSE Err(p)
                   [] name \in {"any", "all", "not"} -> Ok(cfg_meta(p, arg))
                   [] name = "outer" -> Ok(outer_attrs(p, arg.nested))
                   [] name = "inner" -> Ok(inner_attrs(p, arg.nested))
                   [] name = "replace_feature" -> replace_feature(p, arg.nested)
                   [] name = "drop_attrs" -> drop_attrs(p, arg.nested)
                   [] OTHER -> version_or_inner_attr(p, name, arg.nested, arg)
      [] arg.t = "path" ->
            IF IsSome(get_ident(arg.path))
            THEN LET name == Unwrap(get_ident(arg.path)) IN
                 CASE name = MODE_INTO_ASYNC -> Ok(mode_into_async(p))
                   [] name = MODE_INTO_SYNC -> Ok(mode_into_sync(p))
                   [] name = "disable" -> Ok(disable(p))
                   [] name = "keep_self" -> Ok(keep_self(p))
                   [] OTHER -> Ok(inner_attr(p, arg))
            ELSE Ok(inner_attr(p, arg))
      [] arg.t = "lit" ->
            IF arg.lit.k = "str" THEN Ok(inner_attr_str(p, arg.lit)) ELSE Err(p)

RECURSIVE from_args_loop(_, _)
from_args_loop(p, args) ==
    IF args = <<>> THEN Ok(p)
    ELSE LET r == from_args_arg(p, Head(args)) IN
         IF r.ok THEN from_args_loop(r.v, Tail(args)) ELSE r

from_args(args) ==
    LET r == from_args_loop(MacroParametersBuilder_new, args) IN
    IF r.ok THEN Ok(build(r.v)) ELSE r

----------------------------------------------------------------------------
(* Iteration over a HashMap: the order is the hasher's, not the program's. *)

HashOrders == {"h1", "h2"}

Reverse(seq) == [i \in 1..Len(seq) |-> seq[Len(seq) + 1 - i]]

Orderings(S) ==
    {q \in [1..Cardinality(S) -> S] : \A i, j \in 1..Cardinality(S) : i # j => q[i] # q[j]}

\* The keys of map m in the order hasher h visits them.
HashIter(m, h) ==
    IF DOMAIN m = {} THEN <<>>
    ELSE LET q == CHOOSE q \in Orderings(DOMAIN m) : TRUE IN
         IF h = "h1" THEN q ELSE Reverse(q)

----------------------------------------------------------------------------
(* Serialisation: IdentRecord::to_nestedmeta, MacroParameters::to_nestedmeta *)

IdentRecord_to_nestedmeta(self, name, h) ==
    LET nested ==
            (IF self.fn_mode THEN <<MPath(make_path("fn"))>> ELSE <<>>)
         \o (IF self.use_mode THEN <<MPath(make_path("use"))>> ELSE <<>>)
         \o (IF self.keep THEN <<MPath(make_path("keep"))>> ELSE <<>>)
         \o (IF IsSome(self.ident_async)
             THEN IF Unwrap(self.ident_async) = name
                  THEN <<MPath(make_path("async"))>>
                  ELSE <<make_nestedmeta_namevalue("async", Unwrap(self.ident_async))>>
             ELSE <<>>)
         \o (IF IsSome(self.ident_sync)
             THEN IF Unwrap(self.ident_sync) = name
                  THEN <<MPath(make_path("sync"))>>
                  ELSE <<make_nestedmeta_namevalue("sync", Unwrap(self.ident_sync))>>
             ELSE <<>>)
         \o (IF IsSome(self.idents)
             THEN LET m == Unwrap(self.idents)
                      ks == HashIter(m, h)
                  IN [i \in 1..Len(ks) |-> make_nestedmeta_namevalue(ks[i], m[ks[i]])]
             ELSE <<>>)
    IN IF nested = <<>> THEN MPath(make_path(name)) ELSE make_nestedmeta_list(name, nested)

RECURSIVE to_nestedmeta(_, _, _)
to_nestedmeta(self, add_mode, h) ==
    LET mode == IF IsSome(add_mode) THEN add_mode ELSE self.mode
        iks == HashIter(self.idents, h)
        fks == HashIter(self.replace_features, h)
    IN (IF IsSome(mode)
        THEN IF Unwrap(mode) = IntoAsync
             THEN <<MPath(make_path(MODE_INTO_ASYNC))>>
             ELSE <<MPath(make_path(MODE_INTO_SYNC))>>
        ELSE <<>>)
    \o (IF self.disable THEN <<MPath(make_path("disable"))>> ELSE <<>>)
    \o (IF self.keep_self THEN <<MPath(make_path("keep_self"))>> ELSE <<>>)
    \o (IF IsSome(self.key) THEN <<make_nestedmeta_namevalue("key", Unwrap(self.key))>> ELSE <<>>)
    \o (IF IsSome(self.self_name)
        THEN <<make_nestedmeta_namevalue("self", Unwrap(self.self_name))>> ELSE <<>>)
    \o (IF IsSome(self.prefix)
        THEN <<make_nestedmeta_namevalue("prefix", Unwrap(self.prefix))>> ELSE <<>>)
    \o (IF IsSome(self.send)
        THEN <<make_nestedmeta_namevalue("prefix", IF Unwrap(self.send) THEN "Send" ELSE "?Send")>>
        ELSE <<>>)
    \o (IF IsSome(self.cfg) THEN <<make_nestedmeta_list("cfg", <<Unwrap(self.cfg)>>)>> ELSE <<>>)
    \o (IF self.outer_attrs # <<>>
        THEN <<make_nestedmeta_list("outer", self.outer_attrs)>> ELSE <<>>)
    \o (IF self.inner_attrs # <<>>
        THEN <<make_nestedmeta_list("inner", self.inner_attrs)>> ELSE <<>>)
    \o (IF iks # <<>>
        THEN <<make_nestedmeta_list("idents",
                 [i \in 1..Len(iks) |-> IdentRecord_to_nestedmeta(self.idents[iks[i]], iks[i], h)])>>
        ELSE <<>>)
    \o (IF self.drop_attrs # <<>>
        THEN <<make_nestedmeta_list("drop_attrs",
                 [i \in 1..Len(self.drop_attrs) |-> MPath(make_path(self.drop_attrs[i]))])>>
        ELSE <<>>)
    \o [i \in 1..Len(fks) |->
            make_nestedmeta_list("replace_feature",
                <<NLit(LitStr(fks[i])), NLit(LitStr(self.replace_features[fks[i]]))>>)]
    \o [i \in 1..Len(self.versions) |->
            make_nestedmeta_list(ConvertMode_to_str(self.versions[i].kind),
                                 to_nestedmeta(self.versions[i].params, None, h))]

----------------------------------------------------------------------------
(* Token streams.  A stream is a sequence of tokens; a token is an          *)
(* attribute #[meta], an attribute parsed from a string literal, or one     *)
(* item of the annotated source.                                            *)

NoMeta == MPath(<<>>)

\* One syntactic item.  `asyncness` is the marker on a fn's own signature,
\* `items` the members of an impl or trait, `ty_path` whether an impl's self
\* type is a path, `visited` the mode the rename visitor ran with.
Item(kind, ident, asyncness, items) ==
    [kind |-> kind, ident |-> ident, ty_path |-> TRUE, asyncness |-> asyncness,
     items |-> items, attrs |-> <<>>, visited |-> None]

\* A member of an impl or trait: a method (with or without the marker) or
\* another kind of member.
Member(kind, asyncness) == [kind |-> kind, asyncness |-> asyncness]

NoItem == Item("none", "", FALSE, <<>>)

Attr(meta) == [t |-> "attr", meta |-> meta, item |-> NoItem]

ItemTok(item) == [t |-> "item", meta |-> NoMeta, item |-> item]

\* utils::make_attr_ts_from_str: the attribute spelled by a string literal
make_attr_ts_from_str(s) == [t |-> "attr_str", meta |-> NLit(LitStr(s)), item |-> NoItem]

\* The result of a run that produces tokens, fails or panics.
Tokens(ts) == [st |-> "ok", ts |-> ts]

Failed(st) == [st |-> st, ts |-> <<>>]

MACRO_MAYBE_NAME == "maybe"

DEFAULT_CRATE_NAME == "maybe_async_cfg"

prefix_get(self) == IF IsSome(self.prefix) THEN Unwrap(self.prefix) ELSE DEFAULT_CRATE_NAME

make_self_path(self, name) == <<prefix_get(self), name>>

\* The loop shared by extend_tokenstream2_with_cfg_outer_attrs and
\* extend_tokenstream2_with_inner_attrs: one attribute per entry; a literal
\* that is no string reaches unreachable!().
RECURSIVE extend_with_attrs(_)
extend_with_attrs(attrs) ==
    IF attrs = <<>> THEN Tokens(<<>>)
    ELSE LET attr == Head(attrs)
             rest == extend_with_attrs(Tail(attrs))
         IN IF attr.t = "lit" /\ attr.lit.k # "str" THEN Failed("panic")
            ELSE IF rest.st # "ok" THEN rest
            ELSE Tokens(<<IF attr.t = "lit" THEN make_attr_ts_from_str(attr.lit.v)
                          ELSE Attr(attr)>> \o rest.ts)

extend_tokenstream2_with_cfg_outer_attrs(self) ==
    LET outer == extend_with_attrs(self.outer_attrs) IN
    IF outer.st # "ok" THEN outer
    ELSE Tokens((IF IsSome(self.cfg)
                 THEN <<Attr(make_nestedmeta_list("cfg", <<Unwrap(self.cfg)>>))>>
                 ELSE <<>>) \o outer.ts)

extend_tokenstream2_with_inner_attrs(self) == extend_with_attrs(self.inner_attrs)

----------------------------------------------------------------------------
(* MacroParameters::original_self_name_set and the dispatcher, convert *)

original_self_name_set_overwrite(self, name, fn_mode) ==
    IF ~self.keep_self
    THEN LET ir == IdentRecord_with_fn_mode(fn_mode) IN
         [self EXCEPT !.idents =
            MapInsert(self.idents, name,
                      IF IsSome(self.key) /\ IsSome(self.self_name)
                      THEN [ir EXCEPT !.idents =
                              Some(MapInsert(EmptyMap, Unwrap(self.key), Unwrap(self.self_name)))]
                      ELSE ir)]
    ELSE self

original_self_name_set(self, name, fn_mode) ==
    IF ~self.keep_self /\ name \notin DOMAIN self.idents
    THEN LET ir == IdentRecord_with_fn_mode(fn_mode) IN
         [self EXCEPT !.idents =
            MapInsert(self.idents, name,
                      IF IsSome(self.key) /\ IsSome(self.self_name)
                      THEN [ir EXCEPT !.idents =
                              Some(MapInsert(EmptyMap, Unwrap(self.key), Unwrap(self.self_name)))]
                      ELSE ir)]
    ELSE self

\* The rename pass on one identifier: a name with a rule in the table is
\* replaced by what the rule resolves to under the configuration's key, a
\* name without a rule is left alone.
visit_ident_mut(p, name, convert_mode) ==
    IF name \in DOMAIN p.idents
    THEN IdentToString(ident_add_suffix(p.idents[name], PlainIdent(name), convert_mode, p.key))
    ELSE name

\* Visitor::new(AsyncAwaitVisitor::new(params, convert_mode)).visit_item_*_mut:
\* the rename pass over the item, its own name included; the item records
\* the mode the pass ran with.
visit_item_mut(p, item, convert_mode) ==
    [item EXCEPT !.visited = Some(convert_mode),
                 !.ident = visit_ident_mut(p, item.ident, convert_mode)]

strip_methods_all(items) ==
    [i \in 1..Len(items) |->
        IF items[i].asyncness THEN [items[i] EXCEPT !.asyncness = FALSE] ELSE items[i]]

\* The loops of convert_impl and convert_trait over the members.
strip_methods(items) ==
    [i \in 1..Len(items) |->
        IF items[i].kind = "method" /\ items[i].asyncness
        THEN [items[i] EXCEPT !.asyncness = FALSE]
        ELSE items[i]]

\* Each convert_* returns the configuration as it leaves it and the item.
Converted(p, item) == [params |-> p, item |-> item]

convert_impl_send_default(p, item, convert_mode) ==
    LET p1 == IF item.ty_path THEN original_self_name_set(p, item.ident, FALSE) ELSE p
        send_ == p1.send
        edited ==
            IF convert_mode = IntoSync
            THEN [item EXCEPT !.items = strip_methods(item.items)]
            ELSE [item EXCEPT !.attrs =
                    Append(item.attrs,
                           IF IsSome(send_) /\ ~Unwrap(send_)
                           THEN "async_trait::async_trait(?Send)"
                           ELSE "async_trait::async_trait")]
    IN Converted(p1, visit_item_mut(p1, edited, convert_mode))

convert_impl(p, item, convert_mode) ==
    LET p1 == IF item.ty_path THEN original_self_name_set(p, item.ident, FALSE) ELSE p
        send_ == p1.send
        edited ==
            IF convert_mode = IntoSync
            THEN [item EXCEPT !.items = strip_methods(item.items)]
            ELSE IF IsSome(send_)
                 THEN [item EXCEPT !.attrs =
                         Append(item.attrs,
                                IF Unwrap(send_) THEN "async_trait::async_trait"
                                ELSE "async_trait::async_trait(?Send)")]
                 ELSE item
    IN Converted(p1, visit_item_mut(p1, edited, convert_mode))

convert_struct(p, item, convert_mode) ==
    LET p1 == original_self_name_set(p, item.ident, FALSE) IN
    Converted(p1, visit_item_mut(p1, item, convert_mode))

convert_enum(p, item, convert_mode) ==
    LET p1 == original_self_name_set(p, item.ident, FALSE) IN
    Converted(p1, visit_item_mut(p1, item, convert_mode))

convert_trait(p, item, convert_mode) ==
    LET p1 == original_self_name_set(p, item.ident, FALSE)
        edited == IF convert_mode = IntoSync
                  THEN [item EXCEPT !.items = strip_methods(item.items)]
                  ELSE item
    IN Converted(p1, visit_item_mut(p1, edited, convert_mode))

convert_fn_type_name(p, item, convert_mode) ==
    LET p1 == original_self_name_set(p, item.ident, FALSE)
        edited == IF convert_mode = IntoSync /\ item.asyncness
                  THEN [item EXCEPT !.asyncness = FALSE]
                  ELSE item
    IN Converted(p1, visit_item_mut(p1, edited, convert_mode))

convert_fn(p, item, convert_mode) ==
    LET p1 == original_self_name_set(p, item.ident, TRUE)
        edited == IF convert_mode = IntoSync /\ item.asyncness
                  THEN [item EXCEPT !.asyncness = FALSE]
                  ELSE item
    IN Converted(p1, visit_item_mut(p1, edited, convert_mode))

convert_use(p, item, convert_mode) == Converted(p, visit_item_mut(p, item, convert_mode))

convert_mod_type_name(p, item, convert_mode) ==
    LET p1 == original_self_name_set(p, item.ident, FALSE) IN
    Converted(p1, visit_item_mut(p1, item, convert_mode))

convert_mod(p, item, convert_mode) ==
    LET p1 == original_self_name_set(p, item.ident, TRUE) IN
    Converted(p1, visit_item_mut(p1, item, convert_mode))

SupportedKinds == {"impl", "struct", "enum", "trait", "fn", "use", "mod"}

convert_item(p, item, convert_mode) ==
    CASE item.kind = "impl" -> convert_impl(p, item, convert_mode)
      [] item.kind = "struct" -> convert_struct(p, item, convert_mode)
      [] item.kind = "enum" -> convert_enum(p, item, convert_mode)
      [] item.kind = "trait" -> convert_trait(p, item, convert_mode)
      [] item.kind = "fn" -> convert_fn(p, item, convert_mode)
      [] item.kind = "use" -> convert_use(p, item, convert_mode)
      [] item.kind = "mod" -> convert_mod(p, item, convert_mode)

RECURSIVE convert_items_skip(_, _, _)
convert_items_skip(p, items, convert_mode) ==
    IF items = <<>> THEN Tokens(<<>>)
    ELSE IF Head(items).item.kind \notin SupportedKinds
    THEN convert_items_skip(p, Tail(items), convert_mode)
    ELSE LET c == convert_item(p, Head(items).item, convert_mode)
             rest == convert_items_skip(c.params, Tail(items), convert_mode)
         IN IF rest.st # "ok" THEN rest ELSE Tokens(<<ItemTok(c.item)>> \o rest.ts)

\* The loop of convert over file.items: the configuration is threaded through
\* the items; an item of another kind aborts the invocation.
RECURSIVE convert_items(_, _, _)
convert_items(p, items, convert_mode) ==
    IF items = <<>> THEN Tokens(<<>>)
    ELSE IF Head(items).item.kind \notin SupportedKinds THEN Failed("abort")
    ELSE LET c == convert_item(p, Head(items).item, convert_mode)
             rest == convert_items(c.params, Tail(items), convert_mode)
         IN IF rest.st # "ok" THEN rest ELSE Tokens(<<ItemTok(c.item)>> \o rest.ts)

convert(p, input_, convert_mode) == convert_items(p, input_, convert_mode)

\* The values the variable `params` of convert takes: the configuration it
\* is called with, then the configuration after each item dispatched.
RECURSIVE convert_regs(_, _, _)
convert_regs(p, items, convert_mode) ==
    IF items = <<>> \/ Head(items).item.kind \notin SupportedKinds THEN <<p>>
    ELSE <<p>> \o convert_regs(convert_item(p, Head(items).item, convert_mode).params,
                               Tail(items), convert_mode)

----------------------------------------------------------------------------
(* macros::maybe *)

maybe_version_inner_first(p, version_, input_, h) ==
    LET outer == extend_tokenstream2_with_cfg_outer_attrs(version_.params)
        name == make_self_path(p, MACRO_MAYBE_NAME)
        args == to_nestedmeta(version_.params, Some(version_.kind), h)
        inner == extend_tokenstream2_with_inner_attrs(version_.params)
    IN IF outer.st # "ok" THEN outer
       ELSE IF inner.st # "ok" THEN inner
       ELSE Tokens(outer.ts \o inner.ts \o <<Attr(MList(name, args))>> \o input_)

maybe_version_no_marker(p, version_, input_, h) ==
    LET outer == extend_tokenstream2_with_cfg_outer_attrs(version_.params)
        name == make_self_path(p, MACRO_MAYBE_NAME)
        args == to_nestedmeta(version_.params, None, h)
        inner == extend_tokenstream2_with_inner_attrs(version_.params)
    IN IF outer.st # "ok" THEN outer
       ELSE IF inner.st # "ok" THEN inner
       ELSE Tokens(outer.ts \o <<Attr(MList(name, args))>> \o inner.ts \o input_)

\* The tokens one pass of the loop over params.versions adds.
maybe_version(p, version_, input_, h) ==
    LET outer == extend_tokenstream2_with_cfg_outer_attrs(version_.params)
        name == make_self_path(p, MACRO_MAYBE_NAME)
        args == to_nestedmeta(version_.params, Some(version_.kind), h)
        inner == extend_tokenstream2_with_inner_attrs(version_.params)
    IN IF outer.st # "ok" THEN outer
       ELSE IF inner.st # "ok" THEN inner
       ELSE Tokens(outer.ts \o <<Attr(MList(name, args))>> \o inner.ts \o input_)

RECURSIVE maybe_versions(_, _, _, _)
maybe_versions(p, versions, input_, h) ==
    IF versions = <<>> THEN Tokens(<<>>)
    ELSE LET first == maybe_version(p, Head(versions), input_, h) IN
         IF first.st # "ok" THEN first
         ELSE LET rest == maybe_versions(p, Tail(versions), input_, h) IN
              IF rest.st # "ok" THEN rest ELSE Tokens(first.ts \o rest.ts)

maybe_mode_first(p, input_, h) ==
    IF IsSome(p.mode) THEN convert(p, input_, Unwrap(p.mode))
    ELSE IF p.disable THEN Tokens(input_)
    ELSE maybe_versions(p, p.versions, input_, h)

maybe_versions_first(p, input_, h) ==
    IF p.disable THEN Tokens(input_)
    ELSE IF p.versions # <<>> THEN maybe_versions(p, p.versions, input_, h)
    ELSE IF IsSome(p.mode) THEN convert(p, input_, Unwrap(p.mode))
    ELSE Tokens(<<>>)

maybe(p, input_, h) ==
    IF p.disable THEN Tokens(input_)
    ELSE IF IsSome(p.mode) THEN convert(p, input_, Unwrap(p.mode))
    ELSE maybe_versions(p, p.versions, input_, h)

\* The configurations convert goes through when maybe calls it, else none.
maybe_regs(p, input_) ==
    IF ~p.disable /\ IsSome(p.mode) THEN convert_regs(p, input_, Unwrap(p.mode)) ELSE <<>>

----------------------------------------------------------------------------
(* The arguments and the inputs the invocations are run on. *)

\* Directives without a variant block.
LeafArgs ==
    { MPath(<<"disable">>),
      MPath(<<"keep_self">>),
      MPath(<<MODE_INTO_SYNC>>),
      MNameValue(<<"key">>, LitStr("K")),
      MList(<<"idents">>, <<MPath(<<"Foo">>)>>),
      MList(<<"idents">>, <<MList(<<"Foo">>, <<MNameValue(<<"sync">>, LitStr("B"))>>)>>),
      MList(<<"idents">>, <<MList(<<"Bar">>, <<MPath(<<"keep">>)>>)>>),
      MList(<<"drop_attrs">>, <<MPath(<<"A">>)>>),
      MList(<<"drop_attrs">>, <<MPath(<<"B">>)>>),
      MList(<<"replace_feature">>, <<NLit(LitStr("f")), NLit(LitStr("g"))>>),
      MList(<<"replace_feature">>, <<NLit(LitStr("f")), NLit(LitStr("h"))>>),
      MList(<<"cfg">>, <<MNameValue(<<"feature">>, LitStr("x"))>>),
      MList(<<"outer">>, <<MPath(<<"o1">>)>>),
      MList(<<"inner">>, <<MPath(<<"i1">>), NLit(LitStr("i2"))>>) }

\* Directives from_args rejects.
BadArgs ==
    { MNameValue(<<"name">>, LitStr("x")),
      MList(<<"replace_feature">>, <<NLit(LitStr("f"))>>),
      MList(<<"sync">>, <<MNameValue(<<"key">>, LitInt("1"))>>) }

\* The directive lists of the sync(...) blocks.
SyncBodies ==
    {<<>>} \cup {<<d>> : d \in LeafArgs}
    \cup { <<MList(<<"drop_attrs">>, <<MPath(<<"B">>)>>), MList(<<"drop_attrs">>, <<MPath(<<"C">>)>>)>>,
           <<MPath(<<"disable">>), MList(<<"async">>, <<>>)>>,
           <<MList(<<"sync">>, <<MPath(<<"keep_self">>)>>)>>,
           <<MList(<<"inner">>, <<NLit(LitInt("1"))>>)>> }

\* The directive lists of the async(...) blocks.
AsyncBodies ==
    { <<>>,
      <<MNameValue(<<"key">>, LitStr("K"))>>,
      <<MList(<<"cfg">>, <<MNameValue(<<"feature">>, LitStr("x"))>>)>>,
      <<MList(<<"idents">>, <<MList(<<"Foo">>, <<MNameValue(<<"sync">>, LitStr("B"))>>)>>)>> }

VersionArgs ==
    {MList(<<"sync">>, body) : body \in SyncBodies}
    \cup {MList(<<"async">>, body) : body \in AsyncBodies}

\* Directives for the settings and the pass-through forms LeafArgs leaves
\* out, variant blocks that use them, and further directives from_args
\* rejects.
MoreLeafArgs ==
    { MNameValue(<<"send">>, LitStr("Send")),
      MNameValue(<<"self">>, LitStr("S")),
      MNameValue(<<"prefix">>, LitStr("p")),
      MList(<<"foo">>, <<MPath(<<"bar">>)>>),
      MPath(<<"baz">>),
      MPath(<<"a", "b">>),
      NLit(LitStr("s")) }

MoreVersionArgs ==
    { MList(<<"sync">>, <<MNameValue(<<"self">>, LitStr("S"))>>),
      MList(<<"async">>, <<MNameValue(<<"send">>, LitStr("?Send"))>>),
      MList(<<"async">>, <<MList(<<"async">>, <<>>), MList(<<"sync">>, <<>>)>>) }

MoreBadArgs ==
    { MList(<<"cfg">>, <<>>),
      MList(<<"cfg">>, <<MPath(<<"x">>), MPath(<<"y">>)>>),
      MList(<<"cfg">>, <<NLit(LitStr("x"))>>),
      MList(<<"replace_feature">>, <<NLit(LitStr("f")), NLit(LitInt("1"))>>),
      MNameValue(<<"key">>, LitInt("1")),
      MNameValue(<<"send">>, LitStr("maybe")),
      MList(<<"a", "b">>, <<MPath(<<"c">>)>>),
      MList(<<"async">>, <<MList(<<"cfg">>, <<>>)>>),
      NLit(LitInt("1")) }

ArgMenu == LeafArgs \cup VersionArgs \cup BadArgs

\* The directives the parser and the serialiser are run on: every setting,
\* every pass-through form, variant blocks and every kind of rejected
\* directive.
ParseMenu ==
    LeafArgs \cup MoreLeafArgs \cup BadArgs \cup MoreBadArgs \cup MoreVersionArgs
    \cup { MList(<<"sync">>, <<>>),
           MList(<<"sync">>, <<MList(<<"drop_attrs">>, <<MPath(<<"B">>)>>)>>),
           MList(<<"sync">>, <<MList(<<"drop_attrs">>, <<MPath(<<"B">>)>>),
                               MList(<<"drop_attrs">>, <<MPath(<<"C">>)>>)>>),
           MList(<<"async">>, <<MNameValue(<<"key">>, LitStr("K"))>>),
           MList(<<"sync">>, <<MList(<<"cfg">>, <<MNameValue(<<"feature">>, LitStr("y"))>>),
                               MList(<<"outer">>, <<MPath(<<"o2">>)>>)>>),
           MList(<<"async">>, <<MList(<<"inner">>, <<MPath(<<"i3">>)>>),
                                MNameValue(<<"prefix">>, LitStr("q"))>>) }

\* The directives of the invocations whose emitted attributes are expanded
\* in turn.
ChainMenu ==
    MoreVersionArgs
    \cup { MPath(<<MODE_INTO_SYNC>>),
           MPath(<<MODE_INTO_ASYNC>>),
           MNameValue(<<"send">>, LitStr("?Send")),
           MPath(<<"disable">>),
           MPath(<<"keep_self">>),
           MNameValue(<<"key">>, LitStr("K")),
           MNameValue(<<"self">>, LitStr("S")),
           MNameValue(<<"send">>, LitStr("Send")),
           MList(<<"idents">>, <<MPath(<<"Foo">>)>>),
           MList(<<"idents">>, <<MList(<<"Foo">>, <<MNameValue(<<"sync">>, LitStr("B"))>>)>>),
           MList(<<"sync">>, <<>>),
           MList(<<"async">>, <<>>),
           MList(<<"sync">>, <<MPath(<<"keep_self">>)>>),
           MList(<<"sync">>, <<MPath(<<"disable">>), MList(<<"async">>, <<>>)>>),
           MList(<<"sync">>, <<MList(<<"sync">>, <<MPath(<<"keep_self">>)>>)>>),
           MList(<<"async">>, <<MNameValue(<<"key">>, LitStr("K"))>>),
           MList(<<"sync">>,
                 <<MList(<<"inner">>,
                         <<MList(<<DEFAULT_CRATE_NAME, MACRO_MAYBE_NAME>>,
                                 <<MList(<<"sync">>, <<>>)>>)>>)>>),
           MNameValue(<<"name">>, LitStr("x")) }

\* The number of arguments of one attribute.
MaxArgs == 2

FnFetch == Item("fn", "fetch", TRUE, <<>>)

ImplFoo == Item("impl", "Foo", FALSE, <<Member("method", TRUE), Member("const", FALSE)>>)

StructFoo == Item("struct", "Foo", FALSE, <<>>)

MacroItem == Item("macro", "m", FALSE, <<>>)

\* A trait with two methods and a member that is no method but holds the
\* marker in tokens the parser left alone.
TraitTr ==
    Item("trait", "Tr", FALSE,
         <<Member("method", TRUE), Member("method", FALSE), Member("verbatim", TRUE)>>)

\* An impl whose self type is no path, with the same members.
ImplSlice == [Item("impl", "", FALSE, TraitTr.items) EXCEPT !.ty_path = FALSE]

ModFoo == Item("mod", "Foo", FALSE, <<>>)

UseFoo == Item("use", "Foo", FALSE, <<>>)

EnumBar == Item("enum", "Bar", FALSE, <<>>)

\* An impl that has an attribute of its own already.
ImplAttr == [ImplFoo EXCEPT !.attrs = <<"allow(unused)">>]

Inputs == { <<ItemTok(FnFetch)>>, <<ItemTok(ImplFoo)>>, <<ItemTok(StructFoo), ItemTok(MacroItem)>> }

\* Units of every kind convert dispatches on, some of several items.
ChainInputs ==
    Inputs
    \cup { <<ItemTok(TraitTr), ItemTok(ImplSlice)>>,
           <<ItemTok(ImplAttr), ItemTok(FnFetch)>>,
           <<ItemTok(ModFoo), ItemTok(UseFoo), ItemTok(StructFoo), ItemTok(EnumBar)>> }

\* The argument lists of the #[prefix::maybe(..)] attributes among tokens
\* that configuration p emitted, in the order of the tokens.
SelfArgs(p, ts) ==
    LET IsSelf(tok) == tok.t = "attr" /\ tok.meta.t = "list"
                       /\ tok.meta.path = make_self_path(p, MACRO_MAYBE_NAME)
        own == SelectSeq(ts, IsSelf)
    IN [i \in 1..Len(own) |-> own[i].meta.nested]

\* The mode whose marker a directive list starts with, if it starts with one.
MarkerOf(args) ==
    IF args # <<>> /\ args[1] = MPath(<<MODE_INTO_SYNC>>) THEN Some(IntoSync)
    ELSE IF args # <<>> /\ args[1] = MPath(<<MODE_INTO_ASYNC>>) THEN Some(IntoAsync)
    ELSE None

\* A serialisation that was parsed again: the mode to_nestedmeta was asked to
\* add, the directive list, and what from_args made of it.
RoundTripped(add_mode, args) == [add_mode |-> add_mode, args |-> args, res |-> from_args(args)]

NoRound == [add_mode |-> None, args |-> <<>>, res |-> Err(MacroParametersBuilder_new)]

NoCall ==
    [rule |-> IdentRecord_new, ident |-> PlainIdent(""), convert_mode |-> IntoSync,
     version_name |-> None, result |-> PlainIdent("")]

NoOutput == Failed("none")

----------------------------------------------------------------------------
(* One invocation of the attribute: from_args, build, then maybe. *)

Init ==
    /\ pc = "args"
    /\ builder = MacroParametersBuilder_new
    /\ nargs = 0
    /\ params = MacroParametersBuilder_new
    /\ input = <<>>
    /\ output = NoOutput
    /\ call = NoCall
    /\ last = NoMeta
    /\ regs = <<>>
    /\ round = NoRound
    /\ pending = <<>>
    /\ passes = 0
    /\ output2 = NoOutput

\* from_args takes the next argument, one of menu, and the builder accepts it.
TakeArg(menu) ==
    /\ pc = "args"
    /\ nargs < MaxArgs
    /\ \E arg \in menu :
          LET r == from_args_arg(builder, arg) IN
          /\ r.ok
          /\ builder' = r.v
          /\ last' = arg
    /\ nargs' = nargs + 1
    /\ UNCHANGED <<pc, params, input, output, call, regs, round, chain>>

FromArgsArg == TakeArg(ArgMenu)

\* from_args takes the next argument, one of menu, and returns its error;
\* unwrap_or_error makes the error the output of the invocation.
RejectArg(menu) ==
    /\ pc = "args"
    /\ nargs < MaxArgs
    /\ \E arg \in menu :
          /\ ~from_args_arg(builder, arg).ok
          /\ last' = arg
    /\ pc' = "error"
    /\ output' = Failed("compile_error")
    /\ UNCHANGED <<builder, nargs, params, input, call, regs, round, chain>>

FromArgsErr == RejectArg(ArgMenu)

\* The arguments are exhausted: from_args returns builder.build().
Build ==
    /\ pc = "args"
    /\ params' = build(builder)
    /\ pc' = "built"
    /\ UNCHANGED <<builder, nargs, input, output, call, last, regs, round, chain>>

\* The rest of maybe, on the tokens the attribute is attached to, one of
\* inputs.
Expand(inputs) ==
    /\ pc = "built"
    /\ \E inp \in inputs, h \in HashOrders :
          /\ input' = inp
          /\ output' = maybe(params, inp, h)
          /\ regs' = maybe_regs(params, inp)
          /\ pending' = SelfArgs(params, output'.ts)
    /\ passes' = 1
    /\ pc' = "done"
    /\ UNCHANGED <<builder, nargs, params, call, last, round, output2>>

Maybe == Expand(Inputs)

\* The compiler expands the first #[prefix::maybe(..)] attribute the
\* invocations so far have emitted: maybe runs on the attribute's arguments
\* and on the copy of the unit the attribute is attached to (the attributes
\* emitted after it stay on the unit).
SecondPass ==
    /\ pc \in {"done", "pass2"}
    /\ pending # <<>>
    /\ round' = RoundTripped(MarkerOf(Head(pending)), Head(pending))
    /\ IF round'.res.ok
       THEN /\ \E h \in HashOrders : output2' = maybe(round'.res.v, input, h)
            /\ regs' = maybe_regs(round'.res.v, input)
            /\ pending' = Tail(pending) \o SelfArgs(round'.res.v, output2'.ts)
       ELSE /\ output2' = Failed("compile_error")
            /\ regs' = <<>>
            /\ pending' = Tail(pending)
    /\ passes' = passes + 1
    /\ pc' = "pass2"
    /\ UNCHANGED <<builder, nargs, params, input, output, call, last>>

\* to_nestedmeta on the configuration built, with or without a mode to add,
\* and from_args on the list it returns.
RoundTrip ==
    /\ pc = "built"
    /\ \E add_mode \in {None, Some(IntoSync), Some(IntoAsync)}, h \in HashOrders :
          round' = RoundTripped(add_mode, to_nestedmeta(params, add_mode, h))
    /\ pc' = "roundtrip"
    /\ UNCHANGED <<builder, nargs, params, input, output, call, last, regs, chain>>

Next == FromArgsArg \/ FromArgsErr \/ Build \/ Maybe

Spec == Init /\ [][Next]_vars

(* The parser on every form of directive, and the serialiser on what it built. *)

ParseArg == TakeArg(ParseMenu)

ParseErr == RejectArg(ParseMenu)

NextParse == ParseArg \/ ParseErr \/ Build \/ RoundTrip

SpecParse == Init /\ [][NextParse]_vars

(* An invocation and the expansions of the attributes it emits. *)

ChainArg == TakeArg(ChainMenu)

ChainErr == RejectArg(ChainMenu)

FirstPass == Expand(ChainInputs)

NextChain == ChainArg \/ ChainErr \/ Build \/ FirstPass \/ SecondPass

SpecChain == Init /\ [][NextChain]_vars

----------------------------------------------------------------------------
(* Calls of IdentRecord::ident_add_suffix on the rules a table can hold. *)

OptNames == {None, Some("A"), Some("B")}

VariantMaps == {None, Some(MapInsert(EmptyMap, "K", "C")),
                Some(MapInsert(MapInsert(EmptyMap, "K", "C"), "L", "D"))}

IdentRecords ==
    [fn_mode : BOOLEAN, use_mode : BOOLEAN, keep : BOOLEAN,
     ident_sync : OptNames, ident_async : OptNames, idents : VariantMaps]

Idents == {PlainIdent("fetch"), PlainIdent("Foo")}

VersionNames == {None, Some("K"), Some("M")}

Called(rule, ident, convert_mode, version_name) ==
    [rule |-> rule, ident |-> ident, convert_mode |-> convert_mode,
     version_name |-> version_name,
     result |-> ident_add_suffix(rule, ident, convert_mode, version_name)]

\* The visitor renames an identifier that has a rule in the table.
RenameWithRule ==
    /\ call = NoCall
    /\ \E rule \in IdentRecords, ident \in Idents, m \in ConvertMode, v \in VersionNames :
          call' = Called(rule, ident, m, v)
    /\ UNCHANGED <<pc, builder, nargs, params, input, output, last, regs, round, chain>>

\* The rule is the one default_ident_record makes.
RenameDefault ==
    /\ call = NoCall
    /\ \E fn_mode \in BOOLEAN, ident \in Idents, m \in ConvertMode, v \in VersionNames :
          call' = Called(IdentRecord_with_fn_mode(fn_mode), ident, m, v)
    /\ UNCHANGED <<pc, builder, nargs, params, input, output, last, regs, round, chain>>

NextRename == RenameWithRule \/ RenameDefault

SpecRename == Init /\ [][NextRename]_vars

----------------------------------------------------------------------------
(* Properties of the variant emission driver, maybe. *)

Expanded == pc = "done"

\* The driver reached its loop over the variants.
EmitsVariants == Expanded /\ ~params.disable /\ IsNone(params.mode)

\* C1: a configuration with disable set returns the input tokens as they
\* are, whatever its mode and whatever variants it declares.
C1_DisabledReturnsInput ==
    (Expanded /\ params.disable) => output = Tokens(input)

C1_Witness ==
    /\ Expanded /\ params.disable /\ Len(params.versions) = 1
    /\ output.ts = input /\ input # <<>>

\* The attributes a decoration list is emitted as.
DecorationTokens(list) ==
    [i \in 1..Len(list) |->
        IF list[i].t = "lit" THEN make_attr_ts_from_str(list[i].lit.v) ELSE Attr(list[i])]

HasBadLiteral(list) == \E i \in 1..Len(list) : list[i].t = "lit" /\ list[i].lit.k # "str"

PanickingVariant(v) ==
    HasBadLiteral(v.params.outer_attrs) \/ HasBadLiteral(v.params.inner_attrs)

ModeMarker(kind) == MPath(<<IF kind = IntoAsync THEN "__into_async" ELSE "__into_sync">>)

\* The self-referential decoration of variant v: the path of the macro, the
\* mode marker of the variant and the variant's configuration, serialised.
SelfDecoration(p, v, h) ==
    Attr(MList(<<prefix_get(p), "maybe">>,
               <<ModeMarker(v.kind)>> \o to_nestedmeta([v.params EXCEPT !.mode = None], None, h)))

CfgGuard(v) ==
    IF IsSome(v.params.cfg)
    THEN <<Attr(MList(<<"cfg">>, <<Unwrap(v.params.cfg)>>))>>
    ELSE <<>>

\* The group of variant v as the specification lists it.
GroupAsSpecified(p, v, inp, h) ==
    CfgGuard(v) \o <<SelfDecoration(p, v, h)>> \o DecorationTokens(v.params.inner_attrs) \o inp

\* The group of variant v with the variant's outer decorations after the guard.
GroupWithOuter(p, v, inp, h) ==
    CfgGuard(v) \o DecorationTokens(v.params.outer_attrs) \o <<SelfDecoration(p, v, h)>>
    \o DecorationTokens(v.params.inner_attrs) \o inp

RECURSIVE GroupsAsSpecified(_, _, _, _)
GroupsAsSpecified(p, versions, inp, h) ==
    IF versions = <<>> THEN <<>>
    ELSE GroupAsSpecified(p, Head(versions), inp, h) \o GroupsAsSpecified(p, Tail(versions), inp, h)

RECURSIVE GroupsWithOuter(_, _, _, _)
GroupsWithOuter(p, versions, inp, h) ==
    IF versions = <<>> THEN <<>>
    ELSE GroupWithOuter(p, Head(versions), inp, h) \o GroupsWithOuter(p, Tail(versions), inp, h)

NoVariantPanics == \A i \in 1..Len(params.versions) : ~PanickingVariant(params.versions[i])

C3_ModeDelegatesToConvert ==
    (Expanded /\ ~params.disable /\ IsSome(params.mode)) =>
        /\ \A i \in 1..Len(output.ts) : output.ts[i].t = "item"
        /\ (\E i \in 1..Len(input) : input[i].item.kind \notin SupportedKinds) =>
              output = Failed("abort")
        /\ (\A i \in 1..Len(input) : input[i].item.kind \in SupportedKinds) =>
              /\ output.st = "ok"
              /\ Len(output.ts) = Len(input)
              /\ \A i \in 1..Len(input) :
                    /\ output.ts[i].item.visited = params.mode
                    /\ output.ts[i].item.kind = input[i].item.kind

C3_Witness ==
    /\ Expanded /\ ~params.disable /\ IsSome(params.mode) /\ params.versions # <<>>
    /\ output.st = "ok" /\ Len(output.ts) = 1 /\ output.ts[1].item.visited = Some(IntoSync)

\* Whether the tokens of inp occur, in order and adjacent, in ts.
Contains(ts, inp) ==
    \E k \in 0..(Len(ts) - Len(inp)) : \A i \in 1..Len(inp) : ts[k + i] = inp[i]

\* C4: without disable and without a mode, whatever the number of variants,
\* the output still holds the tokens of the unit.
C4_UnitPreserved ==
    (EmitsVariants /\ input # <<>>) => (output.st = "ok" /\ Contains(output.ts, input))

----------------------------------------------------------------------------
(* Properties of the rename resolution, IdentRecord::ident_add_suffix. *)

Renamed == call # NoCall

\* The rule of the call has a per-variant override for the key supplied.
VariantOverrideApplies ==
    /\ IsSome(call.version_name)
    /\ IsSome(call.rule.idents)
    /\ Unwrap(call.version_name) \in DOMAIN Unwrap(call.rule.idents)

\* The override of the rule for the mode requested.
ModeOverride ==
    IF call.convert_mode = IntoSync THEN call.rule.ident_sync ELSE call.rule.ident_async

Suffixes == {"Async", "Sync", "_async", "_sync"}

\* C5: keep returns the identifier as it is whatever else the rule holds;
\* otherwise the per-variant override for the key supplied wins over the
\* override of the mode; otherwise the override of the mode is used; a
\* suffixed name is made only when none of them applies.
C5_RenamePrecedence ==
    Renamed =>
        /\ call.rule.keep => call.result = call.ident
        /\ (~call.rule.keep /\ VariantOverrideApplies) =>
              call.result.sym = Unwrap(call.rule.idents)[Unwrap(call.version_name)]
        /\ (~call.rule.keep /\ ~VariantOverrideApplies /\ IsSome(ModeOverride)) =>
              call.result.sym = Unwrap(ModeOverride)
        /\ (~call.rule.keep /\ ~VariantOverrideApplies /\ IsNone(ModeOverride)) =>
              \E sfx \in Suffixes : call.result.sym = call.ident.sym \o sfx
        /\ (call.rule.keep \/ VariantOverrideApplies \/ IsSome(ModeOverride)) =>
              \A sfx \in Suffixes : call.result.sym # call.ident.sym \o sfx

C5_Witness ==
    /\ Renamed /\ ~call.rule.keep /\ VariantOverrideApplies
    /\ call.convert_mode = IntoSync /\ call.rule.ident_sync = Some("A")
    /\ call.result.sym = "C"

\* C6: a rule without keep and without any override gives the identifier
\* followed by Async or Sync, or by _async or _sync for a call target,
\* whatever variant key is supplied.
C6_SuffixedName ==
    (Renamed /\ ~call.rule.keep /\ IsNone(call.rule.ident_sync)
             /\ IsNone(call.rule.ident_async) /\ IsNone(call.rule.idents)) =>
        call.result =
            PlainIdent(call.ident.sym \o
                (CASE ~call.rule.fn_mode /\ call.convert_mode = IntoAsync -> "Async"
                   [] ~call.rule.fn_mode /\ call.convert_mode = IntoSync -> "Sync"
                   [] call.rule.fn_mode /\ call.convert_mode = IntoAsync -> "_async"
                   [] call.rule.fn_mode /\ call.convert_mode = IntoSync -> "_sync"))

C6_Witness ==
    /\ Renamed /\ call.rule = IdentRecord_with_fn_mode(TRUE)
    /\ call.ident = PlainIdent("fetch") /\ call.convert_mode = IntoAsync
    /\ call.version_name = Some("K")
    /\ call.result = PlainIdent("fetch_async")

----------------------------------------------------------------------------
(* Properties of the inheritance merge done by build.  After Build,        *)
(* `builder` still holds the configuration as declared, each variant as    *)
(* its own from_args returned it, and `params` the configuration built.    *)

Built == pc \in {"built", "done"}

Variants == 1..Len(params.versions)

\* The configuration of variant i as declared, and as built.
Declared(i) == builder.versions[i].params

Merged(i) == params.versions[i].params

\* C7: on a key both define, the variant's entry of the rename table (and of
\* the feature-rename map) is the one the built variant holds; the parent's
\* entries are added for the other keys only.
C7_VariantEntryWins ==
    Built => \A i \in Variants :
        /\ DOMAIN Merged(i).idents = DOMAIN Declared(i).idents \cup DOMAIN builder.idents
        /\ \A k \in DOMAIN Declared(i).idents : Merged(i).idents[k] = Declared(i).idents[k]
        /\ \A k \in DOMAIN builder.idents \ DOMAIN Declared(i).idents :
              Merged(i).idents[k] = builder.idents[k]
        /\ DOMAIN Merged(i).replace_features =
              DOMAIN Declared(i).replace_features \cup DOMAIN builder.replace_features
        /\ \A k \in DOMAIN Declared(i).replace_features :
              Merged(i).replace_features[k] = Declared(i).replace_features[k]
        /\ \A k \in DOMAIN builder.replace_features \ DOMAIN Declared(i).replace_features :
              Merged(i).replace_features[k] = builder.replace_features[k]

\* C8: the dropped-attribute list of a built variant is the parent's list
\* followed by the variant's own list, each in its declared order.
C8_DropAttrsParentFirst ==
    Built => \A i \in Variants :
        Merged(i).drop_attrs = builder.drop_attrs \o Declared(i).drop_attrs

C8_Witness ==
    /\ Built /\ Len(params.versions) = 1
    /\ builder.drop_attrs = <<"A">>
    /\ Declared(1).drop_attrs = <<"B">>
    /\ Merged(1).drop_attrs = <<"A", "B">>

\* C9: the variants of a disabled configuration are disabled, the variants
\* of a configuration with keep_self have keep_self, and the merge clears
\* neither flag of a variant.
C9_FlagsInherited ==
    Built => \A i \in Variants :
        /\ params.disable => Merged(i).disable
        /\ params.keep_self => Merged(i).keep_self
        /\ Declared(i).disable => Merged(i).disable
        /\ Declared(i).keep_self => Merged(i).keep_self

C9_Witness ==
    /\ Built /\ Len(params.versions) = 1
    /\ params.disable /\ ~Declared(1).disable /\ Merged(1).disable
    /\ ~params.keep_self /\ Declared(1).keep_self /\ Merged(1).keep_self

\* C10: every built variant has a key: the key it declares, else "sync" for
\* a sync(...) block and "async" for an async(...) block; never the parent's.
C10_VariantKey ==
    Built => \A i \in Variants :
        Merged(i).key =
            IF IsSome(Declared(i).key) THEN Declared(i).key
            ELSE IF params.versions[i].kind = IntoSync THEN Some("sync") ELSE Some("async")

C10_Witness ==
    /\ Built /\ Len(params.versions) = 1
    /\ params.key = Some("K") /\ IsNone(Declared(1).key)
    /\ params.versions[1].kind = IntoAsync /\ Merged(1).key = Some("async")

----------------------------------------------------------------------------
(* Properties of the serialiser, MacroParameters::to_nestedmeta, read back  *)
(* by from_args.                                                            *)

RoundTripDone == pc = "roundtrip"

\* The configuration from_args made of the serialised list.
Reparsed == round.res.v

\* The mode the serialised list carries: the mode added, else the
\* configuration's own.
ExpectedMode == IF IsSome(round.add_mode) THEN round.add_mode ELSE params.mode

\* C11: the list to_nestedmeta returns for a built configuration, with or
\* without a mode added, is accepted by from_args and gives a configuration
\* with the same mode, disable, keep_self, key, self_name, prefix, send, cfg,
\* outer and inner decorations, rename table, dropped names and feature
\* renames.
C11_RoundTripEquivalent ==
    RoundTripDone =>
        /\ round.res.ok
        /\ Reparsed.mode = ExpectedMode
        /\ Reparsed.disable = params.disable
        /\ Reparsed.keep_self = params.keep_self
        /\ Reparsed.key = params.key
        /\ Reparsed.self_name = params.self_name
        /\ Reparsed.prefix = params.prefix
        /\ Reparsed.send = params.send
        /\ Reparsed.cfg = params.cfg
        /\ Reparsed.outer_attrs = params.outer_attrs
        /\ Reparsed.inner_attrs = params.inner_attrs
        /\ Reparsed.idents = params.idents
        /\ Reparsed.drop_attrs = params.drop_attrs
        /\ Reparsed.replace_features = params.replace_features

\* The names a list of dropped attributes holds.
DropSet(p) == {p.drop_attrs[i] : i \in 1..Len(p.drop_attrs)}

\* C12: a built configuration serialised, parsed and built again drops the
\* same set of attribute names, and so does each of its variants after the
\* second merge (the variant's list then names the parent's entries twice).
C12_DropSetRoundTrip ==
    RoundTripDone =>
        /\ round.res.ok
        /\ DropSet(Reparsed) = DropSet(params)
        /\ Len(Reparsed.versions) = Len(params.versions)
        /\ \A i \in 1..Len(params.versions) :
              DropSet(Reparsed.versions[i].params) = DropSet(params.versions[i].params)

C12_Witness ==
    /\ RoundTripDone /\ Len(params.versions) = 1
    /\ params.drop_attrs = <<"A">>
    /\ params.versions[1].params.drop_attrs = <<"A", "B">>
    /\ Reparsed.drop_attrs = <<"A">>
    /\ Reparsed.versions[1].params.drop_attrs = <<"A", "A", "B">>

----------------------------------------------------------------------------
(* Properties of the parser, MacroParameters::from_args. *)

\* from_args has taken an argument.
Taken == last # NoMeta

NameValueNames == {"key", "self", "prefix", "send", "feature"}

SendValues == {"", "Send", "true", "?Send", "false"}

IsStrLit(nm) == nm.t = "lit" /\ nm.lit.k = "str"

\* A directive that is malformed by itself.
MalformedHere(d) ==
    \/ d.t = "list" /\ d.path = <<"cfg">>
          /\ (Len(d.nested) # 1 \/ d.nested[1].t = "lit")
    \/ d.t = "list" /\ d.path = <<"replace_feature">>
          /\ (Len(d.nested) # 2 \/ \E j \in 1..Len(d.nested) : ~IsStrLit(d.nested[j]))
    \/ d.t = "nv" /\ Len(d.path) = 1 /\ d.path[1] \notin NameValueNames
    \/ d.t = "nv" /\ Len(d.path) = 1 /\ d.path[1] \in NameValueNames /\ d.lit.k # "str"
    \/ d.t = "nv" /\ d.path = <<"send">> /\ d.lit.k = "str" /\ d.lit.v \notin SendValues

IsVariantBlock(d) == d.t = "list" /\ d.path \in {<<"sync">>, <<"async">>}

RECURSIVE Malformed(_)
\* A directive that is malformed or is a variant block holding one.
Malformed(d) ==
    \/ MalformedHere(d)
    \/ IsVariantBlock(d) /\ \E j \in 1..Len(d.nested) : Malformed(d.nested[j])

\* C13: a malformed directive, at the top or inside a variant block, makes
\* from_args return its error: the invocation ends with the error and no
\* configuration is built.
C13_MalformedRejected ==
    (Taken /\ Malformed(last)) =>
        /\ pc = "error"
        /\ output = Failed("compile_error")
        /\ params = MacroParametersBuilder_new
        /\ round = NoRound

C13_Witness ==
    /\ pc = "error"
    /\ last = MList(<<"async">>, <<MList(<<"cfg">>, <<>>)>>)
    /\ nargs = 1
    /\ output = Failed("compile_error")

\* The step of from_args on one argument, which `last` names afterwards.
ArgStep == pc = "args" /\ pc' \in {"args", "error"}

ListNames == {"cfg", "idents", "any", "all", "not", "outer", "inner", "replace_feature", "drop_attrs"}

PathNames == {MODE_INTO_ASYNC, MODE_INTO_SYNC, "disable", "keep_self"}

\* A list directive with a name from_args does not know, whatever its path.
UnrecognizedList(d) ==
    /\ d.t = "list" /\ ~IsVariantBlock(d)
    /\ ~(Len(d.path) = 1 /\ d.path[1] \in ListNames)

\* A bare identifier from_args does not know.
UnrecognizedIdent(d) == d.t = "path" /\ Len(d.path) = 1 /\ d.path[1] \notin PathNames

\* The argument is added at the end of the inner decorations and nothing
\* else changes.
AppendedToInner(d) ==
    /\ pc' = "args"
    /\ builder' = [builder EXCEPT !.inner_attrs = Append(builder.inner_attrs, d)]

\* The block adds one variant of its mode, configured by its own list.
DeclaresVariant(d) ==
    builder' = [builder EXCEPT !.versions =
                  Append(builder.versions,
                         Version(IF d.path = <<"sync">> THEN IntoSync ELSE IntoAsync,
                                 from_args(d.nested).v))]

\* C14 as stated: a sync(..) or async(..) block declares one variant of that
\* mode; every other list directive with an unknown name, every unknown bare
\* identifier and every bare string literal is added to the inner
\* decorations in its place and the parse goes on.
C14_PassThroughAnyList ==
    [][ArgStep =>
          /\ (IsVariantBlock(last') /\ pc' = "args") => DeclaresVariant(last')
          /\ (UnrecognizedList(last') \/ UnrecognizedIdent(last') \/ IsStrLit(last')) =>
                AppendedToInner(last')]_vars

\* C14 amended: the same for the list directives whose unknown name is a
\* single identifier and for bare paths of any length; a list directive
\* named by a path of several segments makes from_args return an error.
C14_PassThroughNamedList ==
    [][ArgStep =>
          /\ (IsVariantBlock(last') /\ pc' = "args") => DeclaresVariant(last')
          /\ ((UnrecognizedList(last') /\ Len(last'.path) = 1)
                 \/ (last'.t = "path" /\ ~(Len(last'.path) = 1 /\ last'.path[1] \in PathNames))
                 \/ IsStrLit(last')) =>
                AppendedToInner(last')
          /\ (last'.t = "list" /\ Len(last'.path) # 1) => pc' = "error"]_vars

C14_Witness ==
    /\ pc = "args" /\ nargs = 2
    /\ last = MList(<<"foo">>, <<MPath(<<"bar">>)>>)
    /\ builder.inner_attrs = <<NLit(LitStr("s")), MList(<<"foo">>, <<MPath(<<"bar">>)>>)>>

----------------------------------------------------------------------------
(* Properties of the dispatcher, convert, in the first invocation and in   *)
(* the invocations of the attributes it emitted.                           *)

\* An invocation of maybe has returned.
Invoked == pc \in {"done", "pass2"}

\* The configuration the last invocation ran with, and what it returned.
Cur == IF pc = "done" THEN params ELSE Reparsed

Out == IF pc = "done" THEN output ELSE output2

\* The last invocation called convert.
Converts ==
    /\ Invoked /\ (pc = "pass2" => round.res.ok)
    /\ ~Cur.disable /\ IsSome(Cur.mode)

HasUnsupported == \E i \in 1..Len(input) : input[i].item.kind \notin SupportedKinds

\* C15: convert on a unit holding an item that is no fn, struct, enum,
\* trait, impl, use or mod aborts, and the invocation returns no token, not
\* even for the supported items before that item.
C15_UnsupportedAborts ==
    (Converts /\ HasUnsupported) => (Out = Failed("abort") /\ Out.ts = <<>>)

C15_Witness ==
    /\ Converts /\ pc = "pass2"
    /\ input = <<ItemTok(StructFoo), ItemTok(MacroItem)>>
    /\ output2 = Failed("abort")

\* The configuration that holds a mode marker and nothing else.
OnlyMode(m) == [MacroParametersBuilder_new EXCEPT !.mode = Some(m)]

FetchToSync == Converts /\ Cur = OnlyMode(IntoSync) /\ input = <<ItemTok(FnFetch)>>

EmitsSelf(p, ts) == SelfArgs(p, ts) # <<>>

\* The invocations run and still to run are no more than the variants of
\* the first configuration plus one; an emitted attribute starts with a mode
\* marker; an invocation of an emitted attribute is a conversion, or returns
\* the unit when disabled, and emits no attribute of the macro.
ChainBounded ==
    /\ passes + Len(pending) <= Len(params.versions) + 1
    /\ \A i \in 1..Len(pending) : IsSome(MarkerOf(pending[i]))
    /\ (pc = "pass2" /\ round.res.ok) =>
          /\ Reparsed.disable \/ IsSome(Reparsed.mode)
          /\ ~EmitsSelf(Reparsed, output2.ts)

\* A decoration that is itself an attribute of the macro.
NamesMacro(list) ==
    \E i \in 1..Len(list) :
        list[i].t = "list" /\ Len(list[i].path) = 2 /\ list[i].path[2] = MACRO_MAYBE_NAME

NoDecorationNamesMacro ==
    \A i \in 1..Len(params.versions) :
        /\ ~NamesMacro(params.versions[i].params.outer_attrs)
        /\ ~NamesMacro(params.versions[i].params.inner_attrs)

\* C17 as stated: the chain one invocation starts runs at most N + 1
\* invocations for N variants, every attribute the first pass emits carrying
\* a mode marker.
C17_ChainBounded == ChainBounded

\* C17 amended: the same when no outer or inner decoration of a variant is
\* itself an attribute of the macro.
C17_ChainBoundedOwn == NoDecorationNamesMacro => ChainBounded

C17_Witness ==
    /\ pc = "pass2" /\ passes = 3 /\ pending = <<>>
    /\ Len(params.versions) = 2 /\ NoDecorationNamesMacro
    /\ round.res.ok /\ Len(Reparsed.versions) = 2
    /\ output2.st = "ok" /\ output2.ts # <<>>

\* The item convert dispatched between regs[i] and regs[i + 1].
Dispatched(i) == input[i].item

\* The item makes its convert_* call original_self_name_set.
Registers(item) == item.kind \in {"struct", "enum", "trait", "fn", "mod"}
                   \/ (item.kind = "impl" /\ item.ty_path)

\* C18: a registration changes nothing under keep_self or for a name that
\* has a rule; through the items of one invocation every rule of the table
\* stays as it is, the table only gains entries and no other field changes.
C18_RegistrationKeepsRules ==
    \A i \in 1..(Len(regs) - 1) :
        LET a == regs[i]
            b == regs[i + 1]
        IN /\ DOMAIN a.idents \subseteq DOMAIN b.idents
           /\ \A k \in DOMAIN a.idents : b.idents[k] = a.idents[k]
           /\ [b EXCEPT !.idents = a.idents] = a
           /\ (a.keep_self \/ Dispatched(i).ident \in DOMAIN a.idents) => b = a

C18_Witness ==
    /\ pc = "pass2" /\ Len(regs) = 5
    /\ regs[1].idents = EmptyMap
    /\ regs[2].idents["Foo"].fn_mode
    /\ input[3].item = StructFoo
    /\ regs[4] = regs[2]
    /\ DOMAIN regs[5].idents = {"Foo", "Bar"}

\* C19: the rule a registration inserts has the flag of the item's kind
\* (set for fn and mod, unset for struct, enum, trait and impl), no keep and
\* no override of a mode; it maps the key to self_name when the
\* configuration has both and has no per-variant map otherwise.  A use item
\* and an impl of a type that is no path insert nothing.
C19_NewRule ==
    \A i \in 1..(Len(regs) - 1) :
        LET a == regs[i]
            b == regs[i + 1]
            item == Dispatched(i)
            inserts == Registers(item) /\ ~a.keep_self /\ item.ident \notin DOMAIN a.idents
        IN /\ DOMAIN b.idents = DOMAIN a.idents \cup (IF inserts THEN {item.ident} ELSE {})
           /\ inserts =>
                 b.idents[item.ident] =
                    [fn_mode |-> item.kind \in {"fn", "mod"}, use_mode |-> FALSE, keep |-> FALSE,
                     ident_sync |-> None, ident_async |-> None,
                     idents |-> IF IsSome(a.key) /\ IsSome(a.self_name)
                                THEN Some(MapInsert(EmptyMap, Unwrap(a.key), Unwrap(a.self_name)))
                                ELSE None]

C19_Witness ==
    /\ pc = "pass2" /\ Len(regs) = 5
    /\ regs[1].key = Some("sync") /\ regs[1].self_name = Some("S")
    /\ regs[2].idents["Foo"].fn_mode
    /\ regs[2].idents["Foo"].idents = Some(MapInsert(EmptyMap, "sync", "S"))
    /\ ~regs[5].idents["Bar"].fn_mode

\* C20: in the output of a conversion to sync no fn has the marker and no
\* method of a trait or an impl has it, the other members being as they
\* were; a conversion to async leaves every marker where it was.
C20_SyncStripsMarkers ==
    (Converts /\ Out.st = "ok") =>
        /\ Len(Out.ts) = Len(input)
        /\ \A i \in 1..Len(input) :
              LET before == input[i].item
                  after == Out.ts[i].item
              IN /\ Len(after.items) = Len(before.items)
                 /\ IF Cur.mode = Some(IntoSync)
                    THEN /\ before.kind = "fn" => ~after.asyncness
                         /\ \A j \in 1..Len(before.items) :
                               IF before.kind \in {"trait", "impl"} /\ before.items[j].kind = "method"
                               THEN after.items[j] = [before.items[j] EXCEPT !.asyncness = FALSE]
                               ELSE after.items[j] = before.items[j]
                    ELSE /\ after.asyncness = before.asyncness
                         /\ after.items = before.items

C20_Witness ==
    /\ Converts /\ Cur.mode = Some(IntoSync)
    /\ input = <<ItemTok(TraitTr), ItemTok(ImplSlice)>>
    /\ Out.st = "ok"
    /\ Out.ts[1].item.items =
          <<Member("method", FALSE), Member("method", FALSE), Member("verbatim", TRUE)>>
    /\ Out.ts[2].item.items = Out.ts[1].item.items

\* The attribute convert_impl makes from its send preference.
AsyncTraitAttr(send_) ==
    IF Unwrap(send_) THEN "async_trait::async_trait" ELSE "async_trait::async_trait(?Send)"

\* C21: a conversion to async of an impl appends one attribute to the
\* attributes the impl had, async_trait::async_trait when send is Some(true)
\* and async_trait::async_trait(?Send) when it is Some(false), and appends
\* nothing when send is None; an item of any other kind, and every item of a
\* conversion to sync, keeps the attributes it had.
C21_AsyncImplGetsSendAttr ==
    (Converts /\ Out.st = "ok") =>
        /\ Len(Out.ts) = Len(input)
        /\ \A i \in 1..Len(input) :
              LET before == input[i].item
                  after == Out.ts[i].item
              IN IF before.kind = "impl" /\ Cur.mode = Some(IntoAsync) /\ IsSome(Cur.send)
                 THEN after.attrs = Append(before.attrs, AsyncTraitAttr(Cur.send))
                 ELSE after.attrs = before.attrs

C21_Witness ==
    /\ Converts /\ Cur.mode = Some(IntoAsync) /\ Cur.send = Some(FALSE)
    /\ input = <<ItemTok(ImplAttr), ItemTok(FnFetch)>>
    /\ Out.st = "ok"
    /\ Out.ts[1].item.attrs = <<"allow(unused)", "async_trait::async_trait(?Send)">>
    /\ Out.ts[2].item.attrs = <<>>

----------------------------------------------------------------------------
(* The frame of the inheritance merge. *)

\* build has returned: `params` is the configuration built from `builder`.
BuiltFromArgs == pc \in {"built", "roundtrip"}

\* C22: build leaves every field of the parent but versions as declared and
\* keeps the number, the order and the kinds of the variants; a built variant
\* differs from the variant declared in disable, keep_self, idents,
\* drop_attrs, replace_features and key at most, so its mode, self_name,
\* prefix, send, cfg, outer_attrs, inner_attrs and versions are the declared
\* ones whatever the parent holds; a declared key is kept.
C22_MergeFrame ==
    BuiltFromArgs =>
        /\ [params EXCEPT !.versions = builder.versions] = builder
        /\ Len(params.versions) = Len(builder.versions)
        /\ \A i \in Variants :
              /\ params.versions[i].kind = builder.versions[i].kind
              /\ [Merged(i) EXCEPT !.disable = Declared(i).disable,
                                   !.keep_self = Declared(i).keep_self,
                                   !.idents = Declared(i).idents,
                                   !.drop_attrs = Declared(i).drop_attrs,
                                   !.replace_features = Declared(i).replace_features,
                                   !.key = Declared(i).key] = Declared(i)
              /\ IsSome(Declared(i).key) => Merged(i).key = Declared(i).key

\* A parent with a send preference and a variant that declares none:
\* the merge gives the variant its key and no send preference.
C22_Witness ==
    /\ BuiltFromArgs /\ Len(params.versions) = 1
    /\ builder.send = Some(TRUE) /\ params.send = Some(TRUE)
    /\ Declared(1).send = None /\ Declared(1).self_name = Some("S")
    /\ Declared(1).key = None
    /\ Merged(1).key = Some("sync")
    /\ Merged(1).send = None /\ Merged(1).self_name = Some("S")

====
